---- MODULE Spec2Model ----
(***************************************************************************)
(* Recurring transaction scheduling and execution engine of the finances   *)
(* backend: app/services/recurring_transaction_service.py with the unit of *)
(* work of app/services/base_service.py and the queries of                 *)
(* app/repositories/recurring_transaction_repository.py.                   *)
(*                                                                         *)
(* Dates are proleptic Gregorian ordinals, as Python's date.toordinal():   *)
(* day 1 is 0001-01-01, and date.weekday() is (ordinal + 6) % 7.           *)
(***************************************************************************)
EXTENDS Integers, Sequences, FiniteSets, TLC

VARIABLES
    today,                   \* date.today() / datetime.now(timezone.utc).date()
    recurring_transactions,  \* committed rows of table recurring_transactions (index = id)
    transactions,            \* committed rows of table transactions, in insertion order
    categories,              \* committed rows of table categories (index = id)
    job,                     \* the running execute_pending_for_all_users call and its report
    last,                    \* outcome of the last handler call, as its caller sees it
    calc,                    \* inputs and result of one frequency-calculator call
    runs                     \* two execute_pending_for_all_users calls that overlap in time

vars == <<today, recurring_transactions, transactions, categories, job, last, calc, runs>>

---------------------------------------------------------------------------
(* Python values *)

\* Python's None: outside the range of every optional field (ids, days, ordinals)
None == 0 - 1

\* the ValueError that date.replace raises for a day the month does not have
ValueError == 0 - 2

IsDate(d) == d > 0

Min(a, b) == IF a <= b THEN a ELSE b

Max(a, b) == IF a >= b THEN a ELSE b

---------------------------------------------------------------------------
(* datetime.date *)

Years == 2023 .. 2027

IsLeap(y) == (y % 4 = 0 /\ y % 100 # 0) \/ y % 400 = 0

DaysInMonth(y, m) ==
    IF m = 2 THEN (IF IsLeap(y) THEN 29 ELSE 28)
    ELSE IF m \in {4, 6, 9, 11} THEN 30 ELSE 31

\* number of days before January 1st of year y
DaysBeforeYear(y) ==
    LET p == y - 1 IN 365 * p + (p \div 4) - (p \div 100) + (p \div 400)

RECURSIVE DaysBeforeMonth(_, _)
DaysBeforeMonth(y, m) ==
    IF m = 1 THEN 0 ELSE DaysBeforeMonth(y, m - 1) + DaysInMonth(y, m - 1)

\* date(y, m, d).toordinal()
Ymd(y, m, d) == DaysBeforeYear(y) + DaysBeforeMonth(y, m) + d

YearOf(n) == CHOOSE y \in Years : DaysBeforeYear(y) < n /\ n <= DaysBeforeYear(y + 1)

MonthOf(n) ==
    LET y == YearOf(n)
        doy == n - DaysBeforeYear(y)
    IN CHOOSE m \in 1 .. 12 :
           DaysBeforeMonth(y, m) < doy /\ doy <= DaysBeforeMonth(y, m) + DaysInMonth(y, m)

DayOf(n) == n - DaysBeforeYear(YearOf(n)) - DaysBeforeMonth(YearOf(n), MonthOf(n))

\* date.weekday(): Monday is 0
weekday(n) == (n + 6) % 7

\* date.replace(day=day): ValueError when the month has no such day
replace_day(n, day) ==
    IF day >= 1 /\ day <= DaysInMonth(YearOf(n), MonthOf(n))
    THEN Ymd(YearOf(n), MonthOf(n), day)
    ELSE ValueError

\* a month step that stays in the month it starts from
add_no_month(n) == n

\* date + relativedelta(months=1): the day is clipped to the target month's length
add_one_month(n) ==
    LET y == YearOf(n)
        m == MonthOf(n)
        y2 == IF m = 12 THEN y + 1 ELSE y
        m2 == IF m = 12 THEN 1 ELSE m + 1
    IN Ymd(y2, m2, Min(DayOf(n), DaysInMonth(y2, m2)))

---------------------------------------------------------------------------
(* Frequency calculator *)

RecurringFrequency == {"daily", "weekly", "monthly"}

\* a calculator without the clamp: the requested day is used as it is
target_day_unclamped(day_of_month) == day_of_month

\* target_day = min(day_of_month, 28)
target_day(day_of_month) == Min(day_of_month, 28)

\* a monthly first-due rule that never rolls to the next month
past_target_day_never(day, td) == FALSE

\* `if result.day > target_day` of the monthly branch of _calculate_next_execution
past_target_day(day, td) == day > td

\* days_ahead of the weekly branch of _calculate_next_execution
weekly_days_ahead(day_of_week, current_dow) ==
    LET days_ahead == day_of_week - current_dow
    IN IF days_ahead <= 0 THEN days_ahead + 7 ELSE days_ahead

\* RecurringTransactionService._calculate_next_execution; now is date.today()
_calculate_next_execution(frequency, day_of_week, day_of_month, start_date, now) ==
    LET result == IF start_date >= now THEN start_date ELSE now
    IN CASE frequency = "daily" -> result
         [] frequency = "weekly" ->
              IF day_of_week = None THEN result
              ELSE result + weekly_days_ahead(day_of_week, weekday(result))
         [] frequency = "monthly" ->
              IF day_of_month = None THEN result
              ELSE LET td == target_day(day_of_month)
                       moved == IF past_target_day(DayOf(result), td)
                                THEN add_one_month(result) ELSE result
                   IN replace_day(moved, td)
         [] OTHER -> result

\* a weekly step without the probe loop: the day after the executed date
weekly_probe_none(probe, day_of_week) == probe

\* the probe loop of the weekly branch of _calculate_next_execution_after
RECURSIVE weekly_probe(_, _)
weekly_probe(probe, day_of_week) ==
    IF weekday(probe) # day_of_week THEN weekly_probe(probe + 1, day_of_week) ELSE probe

\* RecurringTransactionService._calculate_next_execution_after
_calculate_next_execution_after(current_execution_date, frequency, day_of_week, day_of_month) ==
    CASE frequency = "daily" -> current_execution_date + 1
      [] frequency = "weekly" ->
           IF day_of_week = None THEN current_execution_date + 7
           ELSE weekly_probe(current_execution_date + 1, day_of_week)
      [] frequency = "monthly" ->
           IF day_of_month = None THEN add_one_month(current_execution_date)
           ELSE replace_day(add_one_month(current_execution_date), target_day(day_of_month))
      [] OTHER -> current_execution_date + 1

---------------------------------------------------------------------------
(* Reference data of the ledger collaborators (accounts, categories) *)

Workspaces == {1, 2}

\* rows of table accounts, index = id
accounts == << [workspace_id |-> 1], [workspace_id |-> 2] >>

\* rows of table categories when the model starts, index = id
category_rows ==
    << [workspace_id |-> 1, type |-> "expense", deleted_at |-> None],
       [workspace_id |-> 1, type |-> "income", deleted_at |-> None],
       [workspace_id |-> 2, type |-> "expense", deleted_at |-> None] >>

---------------------------------------------------------------------------
(* Schedule validator: each returns the name of the exception raised, "" for none *)

\* RecurringTransactionService._validate_account
_validate_account(workspace_id, account_id) ==
    IF account_id \notin DOMAIN accounts
    THEN "AccountNotFoundForRecurringException"
    ELSE IF accounts[account_id].workspace_id # workspace_id
         THEN "AccountNotFoundForRecurringException"
         ELSE ""

\* RecurringTransactionService._validate_category
\* (category_repository.get_by_id does not return a soft-deleted row)
_validate_category(db, workspace_id, category_id, transaction_type) ==
    IF category_id \notin DOMAIN db.categories
    THEN "CategoryNotFoundForRecurringException"
    ELSE IF db.categories[category_id].deleted_at # None
            \/ db.categories[category_id].workspace_id # workspace_id
         THEN "CategoryNotFoundForRecurringException"
         ELSE LET expected_type == IF transaction_type = "income" THEN "income" ELSE "expense"
              IN IF db.categories[category_id].type # expected_type
                 THEN "InvalidFrequencyConfigException"
                 ELSE ""

\* a frequency check that accepts every configuration
_validate_frequency_config_none(frequency, day_of_week, day_of_month) == ""

\* RecurringTransactionService._validate_frequency_config
_validate_frequency_config(frequency, day_of_week, day_of_month) ==
    IF frequency = "weekly" /\ day_of_week = None
    THEN "InvalidFrequencyConfigException"
    ELSE IF frequency = "monthly" /\ day_of_month = None
         THEN "InvalidFrequencyConfigException"
         ELSE ""

\* checks that let everything through
first_raised_none(checks) == ""

\* the first exception raised by a sequence of checks run in order
RECURSIVE first_raised(_)
first_raised(checks) ==
    IF checks = <<>> THEN ""
    ELSE IF Head(checks) # "" THEN Head(checks) ELSE first_raised(Tail(checks))

---------------------------------------------------------------------------
(* Repositories.  A database value is [recurring_transactions, transactions]; *)
(* a session works on its own copy and __aexit__ decides what is committed.   *)

\* `v is None` for the value of column f (enum columns carry the string "None")
is_none(f, v) ==
    CASE f \in {"frequency", "type"} -> v = "None"
      [] f = "is_active" -> FALSE
      [] OTHER -> v = None

\* BaseRepository._base_query + filter on id for a soft-delete model
row_visible(rows, id) == id \in DOMAIN rows /\ rows[id].deleted_at = None

\* RecurringTransactionRepository.get_workspace_recurring(...) is not None
workspace_recurring_found(rows, workspace_id, recurring_id) ==
    row_visible(rows, recurring_id) /\ rows[recurring_id].workspace_id = workspace_id

\* BaseRepository.update on recurring_transactions: None values are dropped,
\* an empty update and an update of a missing or deleted row write nothing
BaseRepository_update(rows, id, data) ==
    LET update_data == {f \in DOMAIN data : ~is_none(f, data[f])}
    IN IF update_data = {} \/ ~row_visible(rows, id) THEN rows
       ELSE [rows EXCEPT ![id] =
                [f \in DOMAIN rows[id] |->
                    IF f \in update_data THEN data[f] ELSE rows[id][f]]]

\* BaseRepository.soft_delete on recurring_transactions
soft_delete(rows, id, now) ==
    IF row_visible(rows, id) THEN [rows EXCEPT ![id].deleted_at = now] ELSE rows

\* a discovery query ordered by id alone
pending_before_by_id(a, b) == a.id <= b.id

\* the ORDER BY of get_pending_global: workspace_id, next_execution_date, id
pending_before(a, b) ==
    \/ a.workspace_id < b.workspace_id
    \/ a.workspace_id = b.workspace_id /\ a.next_execution_date < b.next_execution_date
    \/ a.workspace_id = b.workspace_id /\ a.next_execution_date = b.next_execution_date
       /\ a.id <= b.id

RECURSIVE ordered(_, _)
ordered(rows, ids) ==
    IF ids = {} THEN <<>>
    ELSE LET m == CHOOSE i \in ids : \A j \in ids : pending_before(rows[i], rows[j])
         IN <<rows[m]>> \o ordered(rows, ids \ {m})

\* RecurringTransactionRepository.get_pending_global
get_pending_global(rows, as_of_date) ==
    ordered(rows, {i \in DOMAIN rows :
                       /\ rows[i].deleted_at = None
                       /\ rows[i].is_active
                       /\ rows[i].next_execution_date <= as_of_date})

\* a unit of work whose rollback leaves the inserted transactions in the ledger
__aexit__keep_inserted(committed, session, exception) ==
    IF exception # "" THEN [committed EXCEPT !.transactions = session.transactions]
    ELSE session

\* a unit of work that commits whatever happened in its block
__aexit__always_commit(committed, session, exception) == session

\* BaseService.__aexit__: rollback when the block raised, commit otherwise
__aexit__(committed, session, exception) ==
    IF exception # "" THEN committed ELSE session

---------------------------------------------------------------------------
(* RecurringTransactionService.  Every operation takes the database value its *)
(* session sees and returns [db, exception, executions]: the session's view   *)
(* when the call ends and the exception it raised ("" for none).              *)

returned(db, executions) == [db |-> db, exception |-> "", executions |-> executions]

raised(db, exception, executions) ==
    [db |-> db, exception |-> exception, executions |-> executions]

\* an execute that does not look at the active flag
is_inactive_never(recurring) == FALSE

\* `if not recurring.is_active` of execute
is_inactive(recurring) == ~recurring.is_active

\* an engine that never takes an end date for elapsed
end_date_elapsed_never(end_date, now) == FALSE

\* `recurring.end_date and recurring.end_date < date.today()` of execute and activate
end_date_elapsed(end_date, now) == end_date # None /\ end_date < now

\* an engine that never deactivates a schedule when its cursor passes end_date
expires_never(end_date, next_execution) == FALSE

\* `recurring.end_date and next_execution > recurring.end_date` of execute and the sweep
expires(end_date, next_execution) == end_date # None /\ next_execution > end_date

\* an execute anchored on today alone, however far ahead the cursor is
execution_anchor_today(next_execution_date, now) == now

\* an execute anchored on the cursor alone, however far it lags behind today
execution_anchor_cursor(next_execution_date, now) == next_execution_date

\* execution_anchor of execute: max(recurring.next_execution_date, date.today())
execution_anchor(next_execution_date, now) == Max(next_execution_date, now)

\* RecurringTransactionService._create_transaction_from_recurring; occurrence is a
\* ghost column: the due date the row materializes (the code stores only now)
_create_transaction_from_recurring(db, recurring, now, occurrence) ==
    [db EXCEPT !.transactions = Append(@,
        [recurring_transaction_id |-> recurring.id,
         workspace_id |-> recurring.workspace_id,
         type |-> recurring.type,
         account_id |-> recurring.account_id,
         category_id |-> recurring.category_id,
         transaction_date |-> now,
         occurrence |-> occurrence])]

\* recurring_repository.update(id, data) within a session
update_recurring(db, id, data) ==
    [db EXCEPT !.recurring_transactions = BaseRepository_update(@, id, data)]

\* RecurringTransactionService.create
create(db, workspace_id, data, now) ==
    LET exception == first_raised(<<
            IF data.type = "transfer" THEN "TransferNotAllowedForRecurringException" ELSE "",
            _validate_account(workspace_id, data.account_id),
            _validate_category(db, workspace_id, data.category_id, data.type),
            _validate_frequency_config(data.frequency, data.day_of_week, data.day_of_month) >>)
        next_execution == _calculate_next_execution(
            data.frequency, data.day_of_week, data.day_of_month, data.start_date, now)
        recurring ==
            [id |-> Len(db.recurring_transactions) + 1,
             workspace_id |-> workspace_id,
             type |-> data.type,
             account_id |-> data.account_id,
             category_id |-> data.category_id,
             frequency |-> data.frequency,
             day_of_week |-> data.day_of_week,
             day_of_month |-> data.day_of_month,
             start_date |-> data.start_date,
             end_date |-> data.end_date,
             next_execution_date |-> next_execution,
             last_executed_at |-> None,
             is_active |-> TRUE,
             deleted_at |-> None]
    IN IF exception # "" THEN raised(db, exception, 0)
       ELSE returned([db EXCEPT !.recurring_transactions = Append(@, recurring)], 0)

\* RecurringTransactionService.update; patch is model_dump(exclude_unset=True)
update(db, recurring_id, workspace_id, patch, now) ==
    IF ~workspace_recurring_found(db.recurring_transactions, workspace_id, recurring_id)
    THEN raised(db, "RecurringTransactionNotFoundException", 0)
    ELSE
    LET recurring == db.recurring_transactions[recurring_id]
        recompute == DOMAIN patch \cap {"frequency", "day_of_week", "day_of_month"} # {}
        freq == IF "frequency" \in DOMAIN patch THEN patch.frequency ELSE recurring.frequency
        dow == IF "day_of_week" \in DOMAIN patch THEN patch.day_of_week
               ELSE recurring.day_of_week
        dom == IF "day_of_month" \in DOMAIN patch THEN patch.day_of_month
               ELSE recurring.day_of_month
        exception == first_raised(<<
            IF "category_id" \in DOMAIN patch
            THEN _validate_category(db, workspace_id, patch.category_id, recurring.type) ELSE "",
            IF recompute THEN _validate_frequency_config(freq, dow, dom) ELSE "" >>)
        update_data ==
            IF recompute
            THEN [next_execution_date |->
                     _calculate_next_execution(freq, dow, dom, now, now)] @@ patch
            ELSE patch
    IN IF exception # "" THEN raised(db, exception, 0)
       ELSE returned(update_recurring(db, recurring_id, update_data), 0)

\* RecurringTransactionService.delete
delete(db, recurring_id, workspace_id, now) ==
    IF ~workspace_recurring_found(db.recurring_transactions, workspace_id, recurring_id)
    THEN raised(db, "RecurringTransactionNotFoundException", 0)
    ELSE returned([db EXCEPT !.recurring_transactions = soft_delete(@, recurring_id, now)], 0)

\* RecurringTransactionService.deactivate
deactivate(db, recurring_id, workspace_id) ==
    IF ~workspace_recurring_found(db.recurring_transactions, workspace_id, recurring_id)
    THEN raised(db, "RecurringTransactionNotFoundException", 0)
    ELSE returned(update_recurring(db, recurring_id, [is_active |-> FALSE]), 0)

\* RecurringTransactionService.activate
activate(db, recurring_id, workspace_id, now) ==
    IF ~workspace_recurring_found(db.recurring_transactions, workspace_id, recurring_id)
    THEN raised(db, "RecurringTransactionNotFoundException", 0)
    ELSE
    LET recurring == db.recurring_transactions[recurring_id]
        next_execution == _calculate_next_execution(
            recurring.frequency, recurring.day_of_week, recurring.day_of_month, now, now)
    IN IF end_date_elapsed(recurring.end_date, now)
       THEN raised(db, "RecurringTransactionExpiredException", 0)
       ELSE returned(update_recurring(db, recurring_id,
                [is_active |-> TRUE, next_execution_date |-> next_execution]), 0)

\* RecurringTransactionService.execute (manual, on demand)
execute(db, recurring_id, workspace_id, now) ==
    IF ~workspace_recurring_found(db.recurring_transactions, workspace_id, recurring_id)
    THEN raised(db, "RecurringTransactionNotFoundException", 0)
    ELSE
    LET recurring == db.recurring_transactions[recurring_id]
        anchor == execution_anchor(recurring.next_execution_date, now)
        next_execution == _calculate_next_execution_after(
            anchor, recurring.frequency, recurring.day_of_week, recurring.day_of_month)
        is_active == ~expires(recurring.end_date, next_execution)
    IN IF is_inactive(recurring)
       THEN raised(db, "RecurringTransactionInactiveException", 0)
       ELSE IF end_date_elapsed(recurring.end_date, now)
       THEN raised(update_recurring(db, recurring_id, [is_active |-> FALSE]),
                   "RecurringTransactionExpiredException", 0)
       ELSE returned(
                update_recurring(
                    _create_transaction_from_recurring(db, recurring, now, anchor),
                    recurring_id,
                    [next_execution_date |-> next_execution,
                     last_executed_at |-> now,
                     is_active |-> is_active]), 1)

\* RecurringTransactionService._deactivate_recurring
_deactivate_recurring(db, recurring_id) ==
    IF ~row_visible(db.recurring_transactions, recurring_id)
    THEN raised(db, "RecurringTransactionNotFoundException", 0)
    ELSE returned(update_recurring(db, recurring_id, [is_active |-> FALSE]), 0)

\* a sweep that advances the cursor from the target date instead of the occurrence
backfill_anchor_as_of(execution_date, as_of_date, now) == as_of_date

\* the date the sweep anchors _calculate_next_execution_after on
backfill_anchor(execution_date, as_of_date, now) == execution_date

\* a sweep that never looks at the end date before it creates a transaction
past_end_date_never(end_date, execution_date) == FALSE

\* `if recurring.end_date and execution_date > recurring.end_date` of the sweep loop
past_end_date(end_date, execution_date) == end_date # None /\ execution_date > end_date

\* a loop that keeps the object it read before the UPDATE
loop_object_stale(recurring, updated) == recurring

\* `recurring = updated` at the end of a loop iteration
loop_object(recurring, updated) == updated

\* the while loop of _execute_backfill_for_recurring.  recurring is the loop's ORM
\* object; fault > 0 makes transaction_repository.create raise (a database error)
\* in iteration number fault
RECURSIVE backfill_loop(_, _, _, _, _, _)
backfill_loop(db, recurring, executions, as_of_date, now, fault) ==
    IF ~(recurring.is_active /\ recurring.next_execution_date <= as_of_date)
    THEN returned(db, executions)
    ELSE
    LET execution_date == recurring.next_execution_date
        next_execution == _calculate_next_execution_after(
            backfill_anchor(execution_date, as_of_date, now),
            recurring.frequency, recurring.day_of_week, recurring.day_of_month)
        update_data ==
            IF expires(recurring.end_date, next_execution)
            THEN [next_execution_date |-> next_execution, last_executed_at |-> now,
                  is_active |-> FALSE]
            ELSE [next_execution_date |-> next_execution, last_executed_at |-> now]
        created == _create_transaction_from_recurring(db, recurring, now, execution_date)
        updated == update_recurring(created, recurring.id, update_data)
    IN IF past_end_date(recurring.end_date, execution_date)
       THEN LET out == _deactivate_recurring(db, recurring.id)
            IN [out EXCEPT !.executions = executions]
       ELSE IF fault = executions + 1
       THEN raised(db, "SQLAlchemyError", executions)
       ELSE IF ~row_visible(created.recurring_transactions, recurring.id)
       THEN raised(created, "RecurringTransactionNotFoundException", executions)
       ELSE backfill_loop(updated,
                          loop_object(recurring, updated.recurring_transactions[recurring.id]),
                          executions + 1, as_of_date, now, fault)

\* RecurringTransactionService._execute_backfill_for_recurring
_execute_backfill_for_recurring(db, recurring_id, workspace_id, as_of_date, now, fault) ==
    IF ~workspace_recurring_found(db.recurring_transactions, workspace_id, recurring_id)
    THEN raised(db, "RecurringTransactionNotFoundException", 0)
    ELSE IF ~db.recurring_transactions[recurring_id].is_active
    THEN returned(db, 0)
    ELSE backfill_loop(db, db.recurring_transactions[recurring_id], 0,
                       as_of_date, now, fault)

\* `await self._session.commit()` of __aexit__ when the block did not raise: a
\* commit that fails raises a database error out of the `async with` statement,
\* after the block has run to its end
session_commit(outcome, commit_fails) ==
    IF outcome.exception = "" /\ commit_fails
    THEN raised(outcome.db, "SQLAlchemyError", outcome.executions)
    ELSE outcome

\* a loop that also counts the iterations of a sweep that raised
report_after_item_counts_raised(report, item, outcome) ==
    [report EXCEPT !.successful_executions = @ + outcome.executions,
                   !.failed_executions = IF outcome.exception = "" THEN @ ELSE @ + 1]

\* a loop that forgets what its items returned
report_after_item_lost(report, item, outcome) == report

\* the report after one item of the loop of execute_pending_for_all_users
report_after_item(report, item, outcome) ==
    IF outcome.exception = ""
    THEN [report EXCEPT !.successful_executions = @ + outcome.executions]
    ELSE [report EXCEPT
            !.failed_executions = @ + 1,
            !.errors = Append(@, [recurring_id |-> item.id,
                                  workspace_id |-> item.workspace_id,
                                  message |-> outcome.exception])]

\* a loop whose try/except lets the exception of an item out to the caller
pc_after_item_raise(exception) == IF exception # "" THEN "raised" ELSE "sweeping"

\* a loop without the try/except: the first exception ends the run
pc_after_item_abort(exception) == IF exception # "" THEN "returned" ELSE "sweeping"

\* where the loop of execute_pending_for_all_users stands after one item: the
\* try/except keeps it going whatever the item raised
pc_after_item(exception) == "sweeping"

---------------------------------------------------------------------------
(* Bounds and inputs *)

\* the day the model starts on: Monday 2024-02-26
Today0 == Ymd(2024, 2, 26)

\* days the clock may advance
MaxTicks == 2

\* no manual execute and no new sweep run starts once this many transactions exist
MaxTransactions == 2

\* the sweep iteration in which a database error may be injected (0: none)
MaxFault == 2

\* as_of_date of a sweep run, in days after today (--as-of-date of the cron job)
AsOfOffsets == {0, 35}

\* request bodies of POST /recurring-transactions (RecurringTransactionCreate)
CreateRefs ==
    { [workspace_id |-> 1, type |-> "expense", account_id |-> 1, category_id |-> 1],
      [workspace_id |-> 1, type |-> "transfer", account_id |-> 1, category_id |-> 1],
      [workspace_id |-> 1, type |-> "expense", account_id |-> 2, category_id |-> 1],
      [workspace_id |-> 1, type |-> "expense", account_id |-> 1, category_id |-> 2],
      [workspace_id |-> 1, type |-> "expense", account_id |-> 3, category_id |-> 1],
      [workspace_id |-> 1, type |-> "expense", account_id |-> 1, category_id |-> 3],
      [workspace_id |-> 1, type |-> "expense", account_id |-> 1, category_id |-> 4] }

CreateFrequencies ==
    { [frequency |-> "daily", day_of_week |-> None, day_of_month |-> None],
      [frequency |-> "weekly", day_of_week |-> 2, day_of_month |-> None],
      [frequency |-> "weekly", day_of_week |-> None, day_of_month |-> None],
      [frequency |-> "monthly", day_of_week |-> None, day_of_month |-> 31],
      [frequency |-> "monthly", day_of_week |-> None, day_of_month |-> None] }

CreateStartDates == {Today0 - 1, Today0 + 1}

CreateEndDates == {None, Today0 + 1}

\* request bodies of PATCH /recurring-transactions/{id} (RecurringTransactionUpdate)
Patches ==
    { [is_active |-> TRUE],
      [day_of_week |-> 0],
      [frequency |-> "weekly"] }

NullRow ==
    [id |-> 0, workspace_id |-> 0, type |-> "None", account_id |-> 0, category_id |-> 0,
     frequency |-> "None", day_of_week |-> None, day_of_month |-> None,
     start_date |-> None, end_date |-> None, next_execution_date |-> None,
     last_executed_at |-> None, is_active |-> FALSE, deleted_at |-> None]

NoCall ==
    [op |-> "", recurring_id |-> 0, workspace_id |-> 0, exception |-> "",
     executions |-> 0, exit_code |-> 0, before |-> NullRow]

NoCalc ==
    [fn |-> "", frequency |-> "None", day_of_week |-> None, day_of_month |-> None,
     date |-> None, now |-> None, result |-> None, origin |-> None, calls |-> 0]

IdleJob ==
    [pc |-> "idle", as_of_date |-> None, pending_items |-> <<>>, index |-> 0,
     report |-> [as_of_date |-> None, processed_templates |-> 0,
                 successful_executions |-> 0, failed_executions |-> 0, errors |-> <<>>]]

\* the processes that run the cron job at the same time
Runs == {1, 2}

\* a session that has sent no statement: rows is the session's version of table
\* recurring_transactions once it has written to it (dirty), inserted the rows it
\* has added to table transactions
NoSession == [rows |-> <<>>, inserted |-> <<>>, dirty |-> FALSE]

\* a cron job process before its call of execute_pending_for_all_users; due is a
\* ghost field: the occurrences of the schedule that were due when it ran discovery
IdleRun ==
    [pc |-> "idle", as_of_date |-> None, pending_items |-> <<>>, recurring |-> NullRow,
     executions |-> 0, session |-> NoSession, exception |-> "", due |-> {}]

NoRuns == [p \in Runs |-> IdleRun]

---------------------------------------------------------------------------
(* Actions: one per handler of api/controllers/recurring_transactions.py, and *)
(* the steps of the cron job's execute_pending_for_all_users                  *)

\* the committed database
DB ==
    [recurring_transactions |-> recurring_transactions, transactions |-> transactions,
     categories |-> categories]

row_before(recurring_id) ==
    IF recurring_id \in DOMAIN recurring_transactions
    THEN recurring_transactions[recurring_id] ELSE NullRow

\* `async with RecurringTransactionService() as service: return await service.op(...)`
Handle(op, recurring_id, workspace_id, outcome) ==
    LET final == __aexit__(DB, outcome.db, outcome.exception)
    IN /\ recurring_transactions' = final.recurring_transactions
       /\ transactions' = final.transactions
       /\ last' = [op |-> op, recurring_id |-> recurring_id, workspace_id |-> workspace_id,
                   exception |-> outcome.exception, executions |-> outcome.executions,
                   exit_code |-> 0, before |-> row_before(recurring_id)]

Tick ==
    /\ today < Today0 + MaxTicks
    /\ today' = today + 1
    /\ UNCHANGED <<recurring_transactions, transactions, categories, job, last, calc, runs>>

\* Spec follows one schedule through its life, its handlers called one at a time
Create ==
    /\ job.pc = "idle"
    /\ recurring_transactions = <<>>
    /\ \E ref \in CreateRefs, freq \in CreateFrequencies,
          start_date \in CreateStartDates, end_date \in CreateEndDates :
          LET data == [type |-> ref.type, account_id |-> ref.account_id,
                       category_id |-> ref.category_id, frequency |-> freq.frequency,
                       day_of_week |-> freq.day_of_week,
                       day_of_month |-> freq.day_of_month,
                       start_date |-> start_date, end_date |-> end_date]
          IN Handle("create", Len(recurring_transactions) + 1, ref.workspace_id,
                    create(DB, ref.workspace_id, data, today))
    /\ UNCHANGED <<today, categories, job, calc, runs>>

Update ==
    /\ job.pc = "idle"
    /\ \E id \in DOMAIN recurring_transactions, ws \in Workspaces, patch \in Patches :
          Handle("update", id, ws, update(DB, id, ws, patch, today))
    /\ UNCHANGED <<today, categories, job, calc, runs>>

\* delete, deactivate and activate are called from the workspace that owns the
\* schedule; the lookup from another workspace is followed through update and execute
Delete ==
    /\ job.pc = "idle"
    /\ \E id \in DOMAIN recurring_transactions :
          LET ws == recurring_transactions[id].workspace_id
          IN Handle("delete", id, ws, delete(DB, id, ws, today))
    /\ UNCHANGED <<today, categories, job, calc, runs>>

Deactivate ==
    /\ job.pc = "idle"
    /\ \E id \in DOMAIN recurring_transactions :
          LET ws == recurring_transactions[id].workspace_id
          IN Handle("deactivate", id, ws, deactivate(DB, id, ws))
    /\ UNCHANGED <<today, categories, job, calc, runs>>

Activate ==
    /\ job.pc = "idle"
    /\ \E id \in DOMAIN recurring_transactions :
          LET ws == recurring_transactions[id].workspace_id
          IN Handle("activate", id, ws, activate(DB, id, ws, today))
    /\ UNCHANGED <<today, categories, job, calc, runs>>

Execute ==
    /\ job.pc = "idle"
    /\ Len(transactions) < MaxTransactions
    /\ \E id \in DOMAIN recurring_transactions, ws \in Workspaces :
          Handle("execute", id, ws, execute(DB, id, ws, today))
    /\ UNCHANGED <<today, categories, job, calc, runs>>

\* execute_pending_for_all_users up to its loop: the discovery query in its own session
SweepDiscover ==
    /\ job.pc = "idle"
    /\ Len(transactions) < MaxTransactions
    /\ \E k \in AsOfOffsets, query_fails \in BOOLEAN :
          LET target_date == today + k
              found == get_pending_global(recurring_transactions, target_date)
              pending_items == [i \in DOMAIN found |->
                                   [id |-> found[i].id,
                                    workspace_id |-> found[i].workspace_id]]
          IN IF query_fails
             THEN /\ job' = [IdleJob EXCEPT !.pc = "raised", !.as_of_date = target_date]
                  /\ last' = [NoCall EXCEPT !.op = "get_pending_global",
                                             !.exception = "OperationalError"]
             ELSE /\ job' = [pc |-> "sweeping", as_of_date |-> target_date,
                             pending_items |-> pending_items, index |-> 1,
                             report |-> [as_of_date |-> target_date,
                                         processed_templates |-> Len(pending_items),
                                         successful_executions |-> 0,
                                         failed_executions |-> 0, errors |-> <<>>]]
                  /\ last' = [NoCall EXCEPT !.op = "get_pending_global"]
    /\ UNCHANGED <<today, recurring_transactions, transactions, categories, calc, runs>>

\* one iteration of the loop: the sweep of one schedule in a session of its own
SweepItem ==
    /\ job.pc = "sweeping"
    /\ job.index <= Len(job.pending_items)
    /\ \E fault \in 0 .. MaxFault, commit_fails \in BOOLEAN :
          LET item == job.pending_items[job.index]
              outcome == session_commit(
                             _execute_backfill_for_recurring(
                                 DB, item.id, item.workspace_id, job.as_of_date,
                                 today, fault),
                             commit_fails)
          IN /\ Handle("backfill", item.id, item.workspace_id, outcome)
             /\ job' = [job EXCEPT !.pc = pc_after_item(outcome.exception),
                                   !.index = @ + 1,
                                   !.report = report_after_item(@, item, outcome)]
    /\ UNCHANGED <<today, categories, calc, runs>>

\* the loop is over: `return report`
SweepReturn ==
    /\ job.pc = "sweeping"
    /\ job.index > Len(job.pending_items)
    /\ job' = [job EXCEPT !.pc = "returned"]
    /\ UNCHANGED <<today, recurring_transactions, transactions, categories, last, calc, runs>>

\* run_job of cronjobs/execute_recurring_transactions.py after the report is back
\* or the run has raised: the process exits with 1 when the run raised or a schedule
\* failed, with 0 otherwise
SweepExit ==
    /\ job.pc \in {"returned", "raised"}
    /\ job' = IdleJob
    /\ last' = [NoCall EXCEPT !.op = "run_job",
                               !.exit_code = IF job.pc = "raised"
                                                \/ job.report.failed_executions > 0
                                             THEN 1 ELSE 0]
    /\ UNCHANGED <<today, recurring_transactions, transactions, categories, calc, runs>>

Init ==
    /\ today = Today0
    /\ recurring_transactions = <<>>
    /\ transactions = <<>>
    /\ categories = category_rows
    /\ job = IdleJob
    /\ last = NoCall
    /\ calc = NoCalc
    /\ runs = NoRuns

Next ==
    \/ Tick
    \/ Create
    \/ Update
    \/ Delete
    \/ Deactivate
    \/ Activate
    \/ Execute
    \/ SweepDiscover
    \/ SweepItem
    \/ SweepReturn
    \/ SweepExit

Spec == Init /\ [][Next]_vars

---------------------------------------------------------------------------
(* The create and update forms: SpecForms follows one schedule through create *)
(* and every single-field patch, while categories may be deleted under it.    *)

\* PATCH bodies that set one field, an explicit null included
FieldPatches ==
    { [frequency |-> f] : f \in RecurringFrequency \cup {"None"} }
    \cup { [day_of_week |-> d] : d \in {None, 0} }
    \cup { [day_of_month |-> d] : d \in {None, 31} }
    \cup { [category_id |-> c] : c \in 1 .. 4 }
    \cup { [is_active |-> TRUE] }

\* categories deleted while the model runs
MaxDeletedCategories == 1

UpdateField ==
    /\ job.pc = "idle"
    /\ \E id \in DOMAIN recurring_transactions, patch \in FieldPatches :
          LET ws == recurring_transactions[id].workspace_id
          IN Handle("update", id, ws, update(DB, id, ws, patch, today))
    /\ UNCHANGED <<today, categories, job, calc, runs>>

\* CategoryService.delete: the category is soft-deleted
DeleteCategory ==
    /\ job.pc = "idle"
    /\ Cardinality({c \in DOMAIN categories : categories[c].deleted_at # None})
          < MaxDeletedCategories
    /\ \E c \in DOMAIN categories : categories' = soft_delete(categories, c, today)
    /\ UNCHANGED <<today, recurring_transactions, transactions, job, last, calc, runs>>

NextForms ==
    \/ Tick
    \/ Create
    \/ UpdateField
    \/ DeleteCategory

SpecForms == Init /\ [][NextForms]_vars

---------------------------------------------------------------------------
(* The cron job over several tenants: SpecBatch starts with BatchSize schedules *)
(* already created on Today0 and runs global sweeps over them on that day.      *)

\* schedules that exist when the batch runs start
BatchSize == 3

\* the create calls (workspace and request body) the batch schedules come from
BatchPayloads ==
    { [workspace_id |-> 1, type |-> "expense", account_id |-> 1, category_id |-> 1,
       frequency |-> "daily", day_of_week |-> None, day_of_month |-> None,
       start_date |-> Today0, end_date |-> None],
      [workspace_id |-> 2, type |-> "expense", account_id |-> 2, category_id |-> 3,
       frequency |-> "daily", day_of_week |-> None, day_of_month |-> None,
       start_date |-> Today0 - 1, end_date |-> Today0 + 1] }

\* the database after create was called with each payload in turn
RECURSIVE created_all(_, _, _)
created_all(db, payloads, now) ==
    IF payloads = <<>> THEN db
    ELSE LET p == Head(payloads)
             out == create(db, p.workspace_id, p, now)
         IN created_all(__aexit__(db, out.db, out.exception), Tail(payloads), now)

InitBatch ==
    /\ today = Today0
    /\ \E payloads \in [1 .. BatchSize -> BatchPayloads] :
          recurring_transactions =
              created_all([recurring_transactions |-> <<>>, transactions |-> <<>>,
                           categories |-> category_rows],
                          payloads, Today0).recurring_transactions
    /\ transactions = <<>>
    /\ categories = category_rows
    /\ job = IdleJob
    /\ last = NoCall
    /\ calc = NoCalc
    /\ runs = NoRuns

NextBatch ==
    \/ DeleteCategory
    \/ SweepDiscover
    \/ SweepItem
    \/ SweepReturn
    \/ SweepExit

SpecBatch == InitBatch /\ [][NextBatch]_vars

---------------------------------------------------------------------------
(* Two cron job processes that sweep the same schedule at the same time: each  *)
(* statement of _execute_backfill_for_recurring is a step.  The database is    *)
(* PostgreSQL (config/env.py) at its default isolation level, READ COMMITTED:  *)
(* a SELECT reads the committed rows, an UPDATE of a row another transaction   *)
(* has written waits for that transaction to end and then applies to the row   *)
(* as committed, an INSERT waits for nothing.                                  *)

\* the create calls the swept schedule comes from
OverlapPayloads ==
    BatchPayloads \cup
    { [workspace_id |-> 2, type |-> "expense", account_id |-> 2, category_id |-> 3,
       frequency |-> "weekly", day_of_week |-> 2, day_of_month |-> None,
       start_date |-> Today0, end_date |-> Today0 + 10] }

\* the due dates of schedule r from cursor d up to as_of and the schedule's end
RECURSIVE due_dates(_, _, _)
due_dates(r, d, as_of) ==
    IF d > as_of \/ (r.end_date # None /\ d > r.end_date) THEN {}
    ELSE {d} \cup due_dates(r, _calculate_next_execution_after(
                                   d, r.frequency, r.day_of_week, r.day_of_month), as_of)

\* the other process's transaction holds the lock of the schedule's row
row_locked(p) == \E q \in Runs \ {p} : runs[q].session.dirty

\* a session that never sees (or commits) the rows it has written
session_rows_committed(p) == recurring_transactions

\* table recurring_transactions as the statements of process p's session see it
session_rows(p) ==
    IF runs[p].session.dirty THEN runs[p].session.rows ELSE recurring_transactions

\* a commit that keeps only the rows of the committing session
commit_inserted_only(committed, inserted) == inserted

\* table transactions after the commit of a session that inserted rows
commit_inserted(committed, inserted) == committed \o inserted

\* execute_pending_for_all_users up to the for loop: the discovery unit of work
OverlapDiscover(p) ==
    /\ runs[p].pc = "idle"
    /\ LET found == get_pending_global(recurring_transactions, runs[p].as_of_date)
       IN runs' = [runs EXCEPT
              ![p].pc = IF found = <<>> THEN "returned" ELSE "entered",
              ![p].pending_items = [i \in DOMAIN found |->
                                       [id |-> found[i].id,
                                        workspace_id |-> found[i].workspace_id]],
              ![p].due = UNION {due_dates(found[i], found[i].next_execution_date,
                                          runs[p].as_of_date) : i \in DOMAIN found}]
    /\ UNCHANGED <<today, recurring_transactions, transactions, categories, job, last, calc>>

\* get_by_id and `if not recurring.is_active: return 0` of
\* _execute_backfill_for_recurring, in the item's own unit of work
OverlapRead(p) ==
    /\ runs[p].pc = "entered"
    /\ LET item == runs[p].pending_items[1]
       IN IF ~workspace_recurring_found(recurring_transactions, item.workspace_id, item.id)
          THEN runs' = [runs EXCEPT ![p].pc = "raising",
                                    ![p].exception = "RecurringTransactionNotFoundException"]
          ELSE runs' = [runs EXCEPT
                   ![p].recurring = recurring_transactions[item.id],
                   ![p].pc = IF recurring_transactions[item.id].is_active
                             THEN "loop" ELSE "commit"]
    /\ UNCHANGED <<today, recurring_transactions, transactions, categories, job, last, calc>>

\* the while test, the end_date test and _create_transaction_from_recurring of one
\* loop iteration; the INSERT may raise
OverlapCreate(p) ==
    /\ runs[p].pc = "loop"
    /\ \E fails \in BOOLEAN :
          LET recurring == runs[p].recurring
              execution_date == recurring.next_execution_date
              created == _create_transaction_from_recurring(
                             [transactions |-> runs[p].session.inserted],
                             recurring, today, execution_date)
          IN IF ~(recurring.is_active /\ execution_date <= runs[p].as_of_date)
             THEN runs' = [runs EXCEPT ![p].pc = "commit"]
             ELSE IF past_end_date(recurring.end_date, execution_date)
             THEN runs' = [runs EXCEPT ![p].pc = "deactivate"]
             ELSE IF fails
             THEN runs' = [runs EXCEPT ![p].pc = "raising",
                                       ![p].exception = "SQLAlchemyError"]
             ELSE runs' = [runs EXCEPT ![p].pc = "update",
                                       ![p].session.inserted = created.transactions]
    /\ UNCHANGED <<today, recurring_transactions, transactions, categories, job, last, calc>>

\* the UPDATE of one loop iteration (or of _deactivate_recurring) once the row is
\* not locked by the other transaction, `recurring = updated`, `executions += 1`;
\* the UPDATE may raise
OverlapUpdate(p) ==
    /\ runs[p].pc \in {"update", "deactivate"}
    /\ ~row_locked(p)
    /\ \E fails \in BOOLEAN :
       LET recurring == runs[p].recurring
           execution_date == recurring.next_execution_date
           next_execution == _calculate_next_execution_after(
               backfill_anchor(execution_date, runs[p].as_of_date, today),
               recurring.frequency, recurring.day_of_week, recurring.day_of_month)
           update_data ==
               IF runs[p].pc = "deactivate"
               THEN [is_active |-> FALSE]
               ELSE IF expires(recurring.end_date, next_execution)
               THEN [next_execution_date |-> next_execution, last_executed_at |-> today,
                     is_active |-> FALSE]
               ELSE [next_execution_date |-> next_execution, last_executed_at |-> today]
           updated == update_recurring([recurring_transactions |-> session_rows(p)],
                                       recurring.id, update_data).recurring_transactions
       IN IF fails
          THEN runs' = [runs EXCEPT ![p].pc = "raising",
                                    ![p].exception = "SQLAlchemyError"]
          ELSE IF ~row_visible(session_rows(p), recurring.id)
          THEN runs' = [runs EXCEPT ![p].pc = "raising",
                                    ![p].exception = "RecurringTransactionNotFoundException"]
          ELSE runs' = [runs EXCEPT
                   ![p].session.rows = updated,
                   ![p].session.dirty = TRUE,
                   ![p].recurring = loop_object(recurring, updated[recurring.id]),
                   ![p].executions = IF runs[p].pc = "update" THEN @ + 1 ELSE @,
                   ![p].pc = IF runs[p].pc = "update" THEN "loop" ELSE "commit"]
    /\ UNCHANGED <<today, recurring_transactions, transactions, categories, job, last, calc>>

\* __aexit__ of the unit of work: commit when the block returned, rollback when
\* it raised; the session is closed and the call returns or raises to its caller
OverlapCommit(p) ==
    /\ runs[p].pc \in {"commit", "raising"}
    /\ LET final == __aexit__(
               [recurring_transactions |-> recurring_transactions,
                transactions |-> transactions],
               [recurring_transactions |-> session_rows(p),
                transactions |-> commit_inserted(transactions, runs[p].session.inserted)],
               runs[p].exception)
       IN /\ recurring_transactions' = final.recurring_transactions
          /\ transactions' = final.transactions
    /\ runs' = [runs EXCEPT ![p].pc = IF runs[p].exception = "" THEN "returned" ELSE "raised",
                            ![p].session = NoSession]
    /\ UNCHANGED <<today, categories, job, last, calc>>

InitOverlap ==
    /\ today = Today0
    /\ \E payload \in OverlapPayloads :
          recurring_transactions =
              created_all([recurring_transactions |-> <<>>, transactions |-> <<>>,
                           categories |-> category_rows],
                          <<payload>>, Today0).recurring_transactions
    /\ transactions = <<>>
    /\ categories = category_rows
    /\ job = IdleJob
    /\ last = NoCall
    /\ calc = NoCalc
    /\ \E k \in AsOfOffsets : runs = [p \in Runs |-> [IdleRun EXCEPT !.as_of_date = Today0 + k]]

NextOverlap ==
    \/ \E p \in Runs : OverlapDiscover(p)
    \/ \E p \in Runs : OverlapRead(p)
    \/ \E p \in Runs : OverlapCreate(p)
    \/ \E p \in Runs : OverlapUpdate(p)
    \/ \E p \in Runs : OverlapCommit(p)

SpecOverlap == InitOverlap /\ [][NextOverlap]_vars

---------------------------------------------------------------------------
(* One cron job process that sweeps one schedule, statement by statement.  The *)
(* process runs its statements one after another until it returns or raises.   *)

\* the create calls the swept schedule comes from: every frequency, with and
\* without an end date
SweepPayloads ==
    { [workspace_id |-> 1, type |-> "expense", account_id |-> 1, category_id |-> 1,
       frequency |-> f.frequency, day_of_week |-> f.day_of_week,
       day_of_month |-> f.day_of_month, start_date |-> sd, end_date |-> ed] :
      f \in { [frequency |-> "daily", day_of_week |-> None, day_of_month |-> None],
              [frequency |-> "weekly", day_of_week |-> 2, day_of_month |-> None],
              [frequency |-> "monthly", day_of_week |-> None, day_of_month |-> 31] },
      sd \in {Today0 - 1, Today0},
      ed \in {None, Today0, Today0 + 10} }

InitSweep ==
    /\ today = Today0
    /\ \E payload \in SweepPayloads :
          recurring_transactions =
              created_all([recurring_transactions |-> <<>>, transactions |-> <<>>,
                           categories |-> category_rows],
                          <<payload>>, Today0).recurring_transactions
    /\ transactions = <<>>
    /\ categories = category_rows
    /\ job = IdleJob
    /\ last = NoCall
    /\ calc = NoCalc
    /\ \E k \in AsOfOffsets : runs = [NoRuns EXCEPT ![1].as_of_date = Today0 + k]

NextSweep ==
    \/ OverlapDiscover(1)
    \/ OverlapRead(1)
    \/ OverlapCreate(1)
    \/ OverlapUpdate(1)
    \/ OverlapCommit(1)

\* the process is scheduled: a statement that can run does run.  For the
\* discovery query and the UPDATE the weak fairness condition is written out, with
\* the statement's guard in the place of ENABLED
FairSweep ==
    /\ ([]<>(runs[1].pc # "idle") \/ []<><<OverlapDiscover(1)>>_vars)
    /\ WF_vars(OverlapRead(1))
    /\ WF_vars(OverlapCreate(1))
    /\ ([]<>(~(runs[1].pc \in {"update", "deactivate"} /\ ~row_locked(1)))
           \/ []<><<OverlapUpdate(1)>>_vars)
    /\ WF_vars(OverlapCommit(1))

SpecSweep == InitSweep /\ [][NextSweep]_vars /\ FairSweep

---------------------------------------------------------------------------
(* The cron job over schedules of two workspaces some of which are deactivated *)
(* or deleted before the run                                                   *)

\* the create calls the schedules come from: ids are given in the order of the
\* calls, the cursors differ
PendingPayloads ==
    { [workspace_id |-> 2, type |-> "expense", account_id |-> 2, category_id |-> 3,
       frequency |-> "daily", day_of_week |-> None, day_of_month |-> None,
       start_date |-> Today0, end_date |-> None],
      [workspace_id |-> 1, type |-> "expense", account_id |-> 1, category_id |-> 1,
       frequency |-> "daily", day_of_week |-> None, day_of_month |-> None,
       start_date |-> Today0 + 1, end_date |-> None],
      [workspace_id |-> 1, type |-> "expense", account_id |-> 1, category_id |-> 1,
       frequency |-> "weekly", day_of_week |-> 0, day_of_month |-> None,
       start_date |-> Today0 - 1, end_date |-> None] }

InitPending ==
    /\ today = Today0
    /\ \E a, b, c \in PendingPayloads :
          recurring_transactions =
              created_all([recurring_transactions |-> <<>>, transactions |-> <<>>,
                           categories |-> category_rows],
                          <<a, b, c>>, Today0).recurring_transactions
    /\ transactions = <<>>
    /\ categories = category_rows
    /\ job = IdleJob
    /\ last = NoCall
    /\ calc = NoCalc
    /\ runs = NoRuns

NextPending ==
    \/ Delete
    \/ Deactivate
    \/ SweepDiscover
    \/ SweepItem
    \/ SweepReturn
    \/ SweepExit

SpecPending == InitPending /\ [][NextPending]_vars

---------------------------------------------------------------------------
(* One cron job and the owners of the schedules: SpecReport starts with two    *)
(* schedules and lets an owner deactivate a schedule after the run's discovery *)
(* and before the run sweeps it.  Every unit of work still runs alone.         *)

InitReport ==
    /\ today = Today0
    /\ \E a, b \in BatchPayloads :
          recurring_transactions =
              created_all([recurring_transactions |-> <<>>, transactions |-> <<>>,
                           categories |-> category_rows],
                          <<a, b>>, Today0).recurring_transactions
    /\ transactions = <<>>
    /\ categories = category_rows
    /\ job = IdleJob
    /\ last = NoCall
    /\ calc = NoCalc
    /\ runs = NoRuns

\* POST .../deactivate handled between two units of work of a running cron job
DeactivatePending ==
    /\ job.pc = "sweeping"
    /\ job.index <= Len(job.pending_items)
    /\ \E id \in DOMAIN recurring_transactions :
          LET ws == recurring_transactions[id].workspace_id
          IN Handle("deactivate", id, ws, deactivate(DB, id, ws))
    /\ UNCHANGED <<today, categories, job, calc, runs>>

NextReport ==
    \/ DeactivatePending
    \/ SweepDiscover
    \/ SweepItem
    \/ SweepReturn
    \/ SweepExit

SpecReport == InitReport /\ [][NextReport]_vars

---------------------------------------------------------------------------
(* A cron job process (process 1) and a POST .../execute request (process 2)   *)
(* on the same schedule at the same time, each statement a step, the database  *)
(* as it is for two overlapping cron job processes                             *)

\* date.today() of the two processes, as days after the schedule was created
ManualTodayOffsets == {0, 2}

\* get_by_id and the two checks of execute
ManualRead(p) ==
    /\ runs[p].pc = "request"
    /\ LET item == runs[p].pending_items[1]
           recurring == recurring_transactions[item.id]
       IN IF ~workspace_recurring_found(recurring_transactions, item.workspace_id, item.id)
          THEN runs' = [runs EXCEPT ![p].pc = "raising",
                                    ![p].exception = "RecurringTransactionNotFoundException"]
          ELSE IF is_inactive(recurring)
          THEN runs' = [runs EXCEPT ![p].pc = "raising", ![p].recurring = recurring,
                                    ![p].exception = "RecurringTransactionInactiveException"]
          ELSE runs' = [runs EXCEPT
                   ![p].recurring = recurring,
                   ![p].pc = IF end_date_elapsed(recurring.end_date, today)
                             THEN "expire" ELSE "create"]
    /\ UNCHANGED <<today, recurring_transactions, transactions, categories, job, last, calc>>

\* _create_transaction_from_recurring of execute; the INSERT may raise
ManualCreate(p) ==
    /\ runs[p].pc = "create"
    /\ \E fails \in BOOLEAN :
          LET recurring == runs[p].recurring
              created == _create_transaction_from_recurring(
                             [transactions |-> runs[p].session.inserted], recurring, today,
                             execution_anchor(recurring.next_execution_date, today))
          IN IF fails
             THEN runs' = [runs EXCEPT ![p].pc = "raising",
                                       ![p].exception = "SQLAlchemyError"]
             ELSE runs' = [runs EXCEPT ![p].pc = "stamp",
                                       ![p].session.inserted = created.transactions]
    /\ UNCHANGED <<today, recurring_transactions, transactions, categories, job, last, calc>>

\* the UPDATE of execute once the row is not locked by the other transaction: the
\* cursor update, or the deactivation of an expired schedule followed by the raise;
\* the UPDATE may raise
ManualUpdate(p) ==
    /\ runs[p].pc \in {"stamp", "expire"}
    /\ ~row_locked(p)
    /\ \E fails \in BOOLEAN :
       LET recurring == runs[p].recurring
           next_execution == _calculate_next_execution_after(
               execution_anchor(recurring.next_execution_date, today),
               recurring.frequency, recurring.day_of_week, recurring.day_of_month)
           update_data == [next_execution_date |-> next_execution,
                           last_executed_at |-> today,
                           is_active |-> ~expires(recurring.end_date, next_execution)]
           updated == update_recurring([recurring_transactions |-> session_rows(p)],
                                       recurring.id, update_data).recurring_transactions
           deactivated == update_recurring([recurring_transactions |-> session_rows(p)],
                                           recurring.id, [is_active |-> FALSE]
                                          ).recurring_transactions
       IN IF fails
          THEN runs' = [runs EXCEPT ![p].pc = "raising",
                                    ![p].exception = "SQLAlchemyError"]
          ELSE IF runs[p].pc = "expire"
          THEN runs' = [runs EXCEPT ![p].session.rows = deactivated,
                                    ![p].session.dirty = TRUE,
                                    ![p].pc = "raising",
                                    ![p].exception = "RecurringTransactionExpiredException"]
          ELSE runs' = [runs EXCEPT ![p].session.rows = updated,
                                    ![p].session.dirty = TRUE,
                                    ![p].executions = 1,
                                    ![p].pc = "commit"]
    /\ UNCHANGED <<today, recurring_transactions, transactions, categories, job, last, calc>>

InitManual ==
    /\ \E k \in ManualTodayOffsets : today = Today0 + k
    /\ \E payload \in OverlapPayloads :
          recurring_transactions =
              created_all([recurring_transactions |-> <<>>, transactions |-> <<>>,
                           categories |-> category_rows],
                          <<payload>>, Today0).recurring_transactions
    /\ transactions = <<>>
    /\ categories = category_rows
    /\ job = IdleJob
    /\ last = NoCall
    /\ calc = NoCalc
    /\ \E k \in AsOfOffsets :
          runs = [NoRuns EXCEPT
                     ![1].as_of_date = today + k,
                     ![2].pc = "request",
                     ![2].pending_items =
                         <<[id |-> 1,
                            workspace_id |-> recurring_transactions[1].workspace_id]>>]

NextManual ==
    \/ OverlapDiscover(1)
    \/ OverlapRead(1)
    \/ OverlapCreate(1)
    \/ OverlapUpdate(1)
    \/ ManualRead(2)
    \/ ManualCreate(2)
    \/ ManualUpdate(2)
    \/ \E p \in Runs : OverlapCommit(p)

SpecManual == InitManual /\ [][NextManual]_vars

---------------------------------------------------------------------------
(* Claims about the engine (checked under Spec and SpecBatch) *)

\* this step is a call of handler op (a repeated call that changes nothing is a
\* stuttering step)
Called(op) == last' # last /\ last'.op = op

\* this step is one iteration of the loop of execute_pending_for_all_users
ItemStep == job.pc = "sweeping" /\ job'.index = job.index + 1

\* the schedule the current loop iteration sweeps
Item == job.pending_items[job.index]

\* the transactions materialized from schedule id
of_recurring(txs, id) == SelectSeq(txs, LAMBDA t : t.recurring_transaction_id = id)

next_due_after(r, d) ==
    _calculate_next_execution_after(d, r.frequency, r.day_of_week, r.day_of_month)

\* the chain d, next_due_after(d), ...: how many of its dates are <= as_of
RECURSIVE chain_count(_, _, _)
chain_count(r, d, as_of) ==
    IF d > as_of THEN 0 ELSE 1 + chain_count(r, next_due_after(r, d), as_of)

\* the first date of the chain that is > as_of
RECURSIVE chain_end(_, _, _)
chain_end(r, d, as_of) ==
    IF d > as_of THEN d ELSE chain_end(r, next_due_after(r, d), as_of)

\* C1: the sweep of an active schedule with no end date (or an end date not before
\* as_of) whose cursor is <= as_of creates exactly N transactions, N the number of
\* chain dates <= as_of, returns N and leaves the cursor on the first chain date
\* that is > as_of
C1_BackfillCorrectness ==
    [][ (/\ ItemStep
         /\ last'.exception = ""
         /\ workspace_recurring_found(recurring_transactions, Item.workspace_id, Item.id)
         /\ LET r == recurring_transactions[Item.id]
            IN /\ r.is_active
               /\ r.next_execution_date <= job.as_of_date
               /\ r.end_date = None \/ r.end_date >= job.as_of_date)
        => LET r == recurring_transactions[Item.id]
               n == chain_count(r, r.next_execution_date, job.as_of_date)
           IN /\ Len(transactions') = Len(transactions) + n
              /\ Len(of_recurring(transactions', Item.id))
                    = Len(of_recurring(transactions, Item.id)) + n
              /\ last'.executions = n
              /\ job'.report.successful_executions = job.report.successful_executions + n
              /\ recurring_transactions'[Item.id].next_execution_date
                    = chain_end(r, r.next_execution_date, job.as_of_date)
              /\ recurring_transactions'[Item.id].next_execution_date > job.as_of_date
       ]_vars

\* a monthly schedule two or more periods behind was swept in one call
C1_Witness ==
    /\ last.op = "backfill" /\ last.exception = ""
    /\ last.before.frequency = "monthly"
    /\ last.before.end_date = None
    /\ last.executions >= 2
    /\ Len(transactions) >= 2
    /\ job.pc = "sweeping"
    /\ recurring_transactions[last.recurring_id].next_execution_date > job.as_of_date

\* C2: when the sweep of one schedule raises, the run goes on with the next
\* schedule and returns only after every discovered schedule had its sweep; the
\* rows and transactions of every other schedule are left as committed, and a
\* sweep that completes after a failure commits its transactions
C2_FailureIsolation ==
    [][ /\ (ItemStep /\ last'.exception # "") =>
              /\ job'.pc = "sweeping"
              /\ job'.pending_items = job.pending_items
              /\ \A i \in DOMAIN recurring_transactions : i # Item.id =>
                    /\ recurring_transactions'[i] = recurring_transactions[i]
                    /\ of_recurring(transactions', i) = of_recurring(transactions, i)
        /\ (ItemStep /\ last'.exception = "") =>
              /\ Len(of_recurring(transactions', Item.id))
                    = Len(of_recurring(transactions, Item.id)) + last'.executions
              /\ \A i \in DOMAIN recurring_transactions : i # Item.id =>
                    /\ recurring_transactions'[i] = recurring_transactions[i]
                    /\ of_recurring(transactions', i) = of_recurring(transactions, i)
        /\ (job.pc = "sweeping" /\ job'.pc = "returned") =>
              job.index > Len(job.pending_items)
      ]_vars

\* a run over three schedules returned: the second failed, the first and the
\* third have their transactions committed
C2_Witness ==
    /\ job.pc = "returned"
    /\ Len(job.pending_items) = 3
    /\ job.report.failed_executions = 1
    /\ job.report.errors[1].recurring_id = job.pending_items[2].id
    /\ of_recurring(transactions, job.pending_items[1].id) # <<>>
    /\ of_recurring(transactions, job.pending_items[2].id) = <<>>
    /\ of_recurring(transactions, job.pending_items[3].id) # <<>>

\* the sweep of the current item raised in iteration k > 1: last.executions is
\* k - 1, the iterations it had completed
FailedAfterIterations == ItemStep /\ last'.exception # "" /\ last'.executions >= 1

\* C3 as stated: when a sweep fails at its k-th iteration, k > 1, the transactions
\* and cursor advances of iterations 1..k-1 remain committed
C3_EarlierIterationsCommitted ==
    [][ FailedAfterIterations =>
           /\ Len(of_recurring(transactions', Item.id))
                 = Len(of_recurring(transactions, Item.id)) + last'.executions
           /\ recurring_transactions'[Item.id].next_execution_date
                 > recurring_transactions[Item.id].next_execution_date
      ]_vars

\* C3 amended: when a sweep fails at its k-th iteration, k > 1, the unit of work of
\* that schedule is rolled back as a whole: none of the transactions and cursor
\* advances of iterations 1..k-1 is committed, and they are not counted in the report
C3_EarlierIterationsRolledBack ==
    [][ FailedAfterIterations =>
           /\ transactions' = transactions
           /\ recurring_transactions' = recurring_transactions
           /\ job'.report.successful_executions = job.report.successful_executions
           /\ job'.report.failed_executions = job.report.failed_executions + 1
      ]_vars

\* a sweep failed in its second iteration, after one completed iteration
C3_Witness ==
    /\ last.op = "backfill" /\ last.exception = "SQLAlchemyError"
    /\ last.executions >= 1
    /\ job.pc = "sweeping"
    /\ of_recurring(transactions, last.recurring_id) = <<>>

\* this step committed a transaction materialized from schedule id
Materialized(id) ==
    Len(of_recurring(transactions', id)) > Len(of_recurring(transactions, id))

\* C4: when executing an occurrence (sweep or manual execute) leaves the cursor
\* after end_date, the same update sets the schedule inactive; and no step of a
\* global sweep materializes a transaction for an inactive schedule or reactivates it
C4_Expiry ==
    [][ \A id \in DOMAIN recurring_transactions :
           /\ Materialized(id) =>
                 LET r == recurring_transactions'[id]
                 IN (r.end_date # None /\ r.next_execution_date > r.end_date)
                        => ~r.is_active
           /\ (~recurring_transactions[id].is_active /\ job' # job) =>
                 /\ ~Materialized(id)
                 /\ ~recurring_transactions'[id].is_active
      ]_vars

\* a schedule that expired by execution is inactive with its cursor due, and a
\* later global sweep (target date not before the cursor) found nothing to do
C4_Witness ==
    /\ job.pc = "returned"
    /\ job.report.processed_templates = 0
    /\ Len(recurring_transactions) = 1
    /\ LET r == recurring_transactions[1]
       IN /\ ~r.is_active /\ r.deleted_at = None
          /\ r.last_executed_at # None
          /\ r.end_date # None /\ r.next_execution_date > r.end_date
          /\ r.next_execution_date <= job.as_of_date

\* manual execute was called on a schedule the caller's workspace owns
ExecuteCalled ==
    /\ Called("execute")
    /\ workspace_recurring_found(recurring_transactions,
                                 last'.workspace_id, last'.recurring_id)

\* C5: manual execute on an active schedule whose end_date is before today fails
\* with ExpiredSchedule, creates no transaction, and the schedule is inactive in
\* the committed state after the call
C5_ExpiredExecuteDeactivates ==
    [][ (/\ ExecuteCalled
         /\ recurring_transactions[last'.recurring_id].is_active
         /\ end_date_elapsed(recurring_transactions[last'.recurring_id].end_date, today))
        => /\ last'.exception = "RecurringTransactionExpiredException"
           /\ transactions' = transactions
           /\ ~recurring_transactions'[last'.recurring_id].is_active
      ]_vars

\* C6: manual execute on an active schedule whose end_date is not before today
\* succeeds, creates exactly one transaction (dated today) however far the cursor
\* lags, and sets the cursor to next_due_after(max(next_due, today))
C6_ExecuteOnce ==
    [][ (/\ ExecuteCalled
         /\ recurring_transactions[last'.recurring_id].is_active
         /\ ~end_date_elapsed(recurring_transactions[last'.recurring_id].end_date, today))
        => LET id == last'.recurring_id
               r == recurring_transactions[id]
           IN /\ last'.exception = ""
              /\ Len(transactions') = Len(transactions) + 1
              /\ SubSeq(transactions', 1, Len(transactions)) = transactions
              /\ transactions'[Len(transactions')].recurring_transaction_id = id
              /\ transactions'[Len(transactions')].transaction_date = today
              /\ recurring_transactions'[id].next_execution_date
                    = next_due_after(r, Max(r.next_execution_date, today))
      ]_vars

\* execute succeeded on a daily schedule whose cursor was two or more days behind
C6_Witness ==
    /\ last.op = "execute" /\ last.exception = ""
    /\ last.before.frequency = "daily"
    /\ last.before.is_active
    /\ last.before.next_execution_date <= today - 2
    /\ Len(transactions) = 1
    /\ transactions[1].transaction_date = today
    /\ recurring_transactions[last.recurring_id].next_execution_date = today + 1

\* C7: manual execute on an inactive schedule fails with InactiveSchedule, creates
\* no transaction and changes no field of the schedule, whatever its end_date is
C7_InactiveExecute ==
    [][ (ExecuteCalled /\ ~recurring_transactions[last'.recurring_id].is_active)
        => /\ last'.exception = "RecurringTransactionInactiveException"
           /\ transactions' = transactions
           /\ recurring_transactions' = recurring_transactions
      ]_vars

\* execute was refused on an inactive schedule whose end_date has also elapsed
C7_Witness ==
    /\ last.op = "execute"
    /\ last.exception = "RecurringTransactionInactiveException"
    /\ ~last.before.is_active
    /\ end_date_elapsed(last.before.end_date, today)
    /\ recurring_transactions[last.recurring_id] = last.before

\* C13: in every committed state each schedule's next_execution_date is not
\* before its start_date
C13_CursorNotBeforeStart ==
    \A i \in DOMAIN recurring_transactions :
        recurring_transactions[i].next_execution_date
            >= recurring_transactions[i].start_date

\* activate was called on a schedule the caller's workspace owns
ActivateCalled ==
    /\ Called("activate")
    /\ workspace_recurring_found(recurring_transactions,
                                 last'.workspace_id, last'.recurring_id)

\* C14: activate on a schedule whose end_date is before today fails with
\* ExpiredSchedule and leaves the schedule as it was; on any other schedule it
\* succeeds, sets the schedule active, resets the cursor to first_due computed from
\* today and changes nothing else
C14_Activate ==
    [][ ActivateCalled =>
          LET id == last'.recurring_id
              r == recurring_transactions[id]
          IN IF r.end_date # None /\ r.end_date < today
             THEN /\ last'.exception = "RecurringTransactionExpiredException"
                  /\ recurring_transactions' = recurring_transactions
                  /\ transactions' = transactions
             ELSE /\ last'.exception = ""
                  /\ recurring_transactions' =
                        [recurring_transactions EXCEPT ![id] =
                            [r EXCEPT !.is_active = TRUE,
                                      !.next_execution_date =
                                          _calculate_next_execution(
                                              r.frequency, r.day_of_week,
                                              r.day_of_month, today, today)]]
                  /\ transactions' = transactions
      ]_vars

\* activate was refused on an inactive schedule whose end_date has passed: the
\* schedule is still inactive with the cursor it had
C14_Witness ==
    /\ last.op = "activate"
    /\ last.exception = "RecurringTransactionExpiredException"
    /\ ~last.before.is_active
    /\ last.before.end_date # None /\ last.before.end_date < today
    /\ recurring_transactions[last.recurring_id] = last.before

\* the create requests of the model
CreateRequests ==
    { [workspace_id |-> ref.workspace_id, type |-> ref.type,
       account_id |-> ref.account_id, category_id |-> ref.category_id,
       frequency |-> freq.frequency, day_of_week |-> freq.day_of_week,
       day_of_month |-> freq.day_of_month,
       start_date |-> start_date, end_date |-> end_date] :
         ref \in CreateRefs, freq \in CreateFrequencies,
         start_date \in CreateStartDates, end_date \in CreateEndDates }

\* the category is missing, deleted, of another tenant or of the wrong polarity
bad_category(workspace_id, category_id, type) ==
    \/ category_id \notin DOMAIN categories
    \/ categories[category_id].deleted_at # None
    \/ categories[category_id].workspace_id # workspace_id
    \/ categories[category_id].type # type

\* the request breaks one of the validation rules of create
invalid_create(data) ==
    \/ data.type = "transfer"
    \/ data.account_id \notin DOMAIN accounts
    \/ accounts[data.account_id].workspace_id # data.workspace_id
    \/ bad_category(data.workspace_id, data.category_id, data.type)
    \/ data.frequency = "weekly" /\ data.day_of_week = None
    \/ data.frequency = "monthly" /\ data.day_of_month = None

\* the patch breaks one of the validation rules of update on schedule r
invalid_patch(r, patch) ==
    \/ /\ "category_id" \in DOMAIN patch
       /\ bad_category(r.workspace_id, patch.category_id, r.type)
    \/ /\ DOMAIN patch \cap {"frequency", "day_of_week", "day_of_month"} # {}
       /\ LET merged == [f \in {"frequency", "day_of_week", "day_of_month"} |->
                            IF f \in DOMAIN patch THEN patch[f] ELSE r[f]]
          IN \/ merged.frequency = "weekly" /\ merged.day_of_week = None
             \/ merged.frequency = "monthly" /\ merged.day_of_month = None

\* C15: in every committed state, a create or an update whose request fails
\* validation (transfer kind, account or category missing or of another tenant,
\* category polarity, weekly without day-of-week, monthly without day-of-month)
\* raises to the caller and commits nothing: no schedule is created, no field of
\* an existing schedule changes
C15_FailedValidationWritesNothing ==
    /\ \A data \in CreateRequests :
          invalid_create(data) =>
             LET out == create(DB, data.workspace_id, data, today)
             IN /\ out.exception # ""
                /\ __aexit__(DB, out.db, out.exception) = DB
    /\ \A id \in DOMAIN recurring_transactions, patch \in FieldPatches :
          LET r == recurring_transactions[id]
          IN (r.deleted_at = None /\ invalid_patch(r, patch)) =>
                LET out == update(DB, id, r.workspace_id, patch, today)
                IN /\ out.exception # ""
                   /\ __aexit__(DB, out.db, out.exception) = DB

\* an update that moved the schedule to a category of another tenant was refused
\* and the schedule is as it was
C15_Witness ==
    /\ last.op = "update"
    /\ last.exception = "CategoryNotFoundForRecurringException"
    /\ last.before.deleted_at = None
    /\ last.before.workspace_id = last.workspace_id
    /\ recurring_transactions[last.recurring_id] = last.before

\* C16: in every committed state reached by create and update calls (patches of
\* the frequency alone or of one day field alone included) every schedule is well
\* formed: weekly has a day_of_week, monthly has a day_of_month, none is a transfer
C16_WellFormed ==
    \A i \in DOMAIN recurring_transactions :
        LET r == recurring_transactions[i]
        IN /\ r.frequency \in RecurringFrequency
           /\ r.frequency = "weekly" => r.day_of_week # None
           /\ r.frequency = "monthly" => r.day_of_month # None
           /\ r.type \in {"income", "expense"}

\* a daily schedule was given a day_of_week and then, by a patch of the frequency
\* alone, became weekly
C16_Witness ==
    /\ last.op = "update" /\ last.exception = ""
    /\ last.before.frequency = "daily"
    /\ last.before.day_of_week = 0
    /\ recurring_transactions[last.recurring_id].frequency = "weekly"
    /\ recurring_transactions[last.recurring_id].day_of_week = 0

\* C17: in a global sweep, the sweep of a due schedule whose category was deleted
\* after the schedule was created fails validation: it raises, no transaction is
\* materialized for the schedule, and the schedule is listed in the report's errors
\* and counted in failed_executions
C17_DeletedCategoryFailsSweep ==
    [][ (/\ ItemStep
         /\ workspace_recurring_found(recurring_transactions, Item.workspace_id, Item.id)
         /\ recurring_transactions[Item.id].is_active
         /\ categories[recurring_transactions[Item.id].category_id].deleted_at # None)
        => /\ last'.exception # ""
           /\ of_recurring(transactions', Item.id) = of_recurring(transactions, Item.id)
           /\ job'.report.failed_executions = job.report.failed_executions + 1
           /\ Len(job'.report.errors) = Len(job.report.errors) + 1
           /\ job'.report.errors[Len(job'.report.errors)].recurring_id = Item.id
      ]_vars

\* C18: the report of a global sweep run: processed_templates is the number of
\* schedules discovery returned; each sweep that raised adds one to
\* failed_executions and one entry (schedule id, tenant id, message) to errors;
\* each sweep that did not raise adds the count it returned to
\* successful_executions; failed_executions = Len(errors) <= processed_templates,
\* with at most one error entry per schedule
C18_Report ==
    [][ /\ (job.pc = "idle" /\ job'.pc = "sweeping") =>
              /\ job'.report.processed_templates =
                    Len(get_pending_global(recurring_transactions, job'.as_of_date))
              /\ job'.report.as_of_date = job'.as_of_date
              /\ job'.report.successful_executions = 0
              /\ job'.report.failed_executions = 0
              /\ job'.report.errors = <<>>
        /\ ItemStep =>
              /\ job'.report.processed_templates = job.report.processed_templates
              /\ IF last'.exception # ""
                 THEN /\ job'.report.failed_executions = job.report.failed_executions + 1
                      /\ job'.report.errors =
                            Append(job.report.errors,
                                   [recurring_id |-> Item.id,
                                    workspace_id |-> Item.workspace_id,
                                    message |-> last'.exception])
                      /\ job'.report.successful_executions
                            = job.report.successful_executions
                 ELSE /\ job'.report.successful_executions
                            = job.report.successful_executions + last'.executions
                      /\ job'.report.failed_executions = job.report.failed_executions
                      /\ job'.report.errors = job.report.errors
        /\ (job.pc = "sweeping" /\ job'.pc = "returned") => job'.report = job.report
        /\ job'.pc \in {"sweeping", "returned"} =>
              /\ job'.report.failed_executions = Len(job'.report.errors)
              /\ job'.report.failed_executions <= job'.report.processed_templates
              /\ job'.report.processed_templates = Len(job'.pending_items)
              /\ \A i, j \in DOMAIN job'.report.errors :
                    i # j => job'.report.errors[i].recurring_id
                                # job'.report.errors[j].recurring_id
      ]_vars

\* a run over three schedules returned with two failed sweeps and one that
\* materialized its occurrence
C18_Witness ==
    /\ job.pc = "returned"
    /\ job.report.processed_templates = 3
    /\ job.report.failed_executions = 2
    /\ Len(job.report.errors) = 2
    /\ job.report.successful_executions >= 1
    /\ Len(transactions) = job.report.successful_executions

\* C19: a global sweep run raises to its caller only when the discovery query
\* fails; an exception raised by the sweep of one schedule (by a validation, by a
\* failing statement or by the commit of that schedule's unit of work) is caught
\* and recorded in the report, the loop goes on, and the run returns its report
\* after the last schedule
C19_OnlyDiscoveryRaises ==
    [][ /\ job'.pc = "raised" =>
              /\ job.pc = "idle"
              /\ last'.op = "get_pending_global" /\ last'.exception # ""
        /\ (job.pc = "idle" /\ job' # job) =>
              (last'.exception # "" <=> job'.pc = "raised")
        /\ (ItemStep /\ last'.exception # "") =>
              /\ job'.pc = "sweeping"
              /\ Len(job'.report.errors) = Len(job.report.errors) + 1
              /\ job'.report.errors[Len(job'.report.errors)] =
                    [recurring_id |-> Item.id, workspace_id |-> Item.workspace_id,
                     message |-> last'.exception]
        /\ job.pc = "sweeping" =>
              /\ job'.pc \in {"sweeping", "returned"}
              /\ job'.pc = "returned" => job.index > Len(job.pending_items)
              /\ job.index > Len(job.pending_items) => job'.pc # "sweeping"
      ]_vars

\* a run goes on after the unit of work of a schedule failed to commit (the block
\* had materialized every due occurrence), with the failure in its report
C19_Witness ==
    /\ job.pc = "sweeping"
    /\ job.index = 2
    /\ last.op = "backfill" /\ last.exception = "SQLAlchemyError"
    /\ last.executions >= 1
    /\ \E r \in DOMAIN recurring_transactions :
          /\ recurring_transactions[r].id = last.recurring_id
          /\ last.executions = chain_count(recurring_transactions[r],
                                           recurring_transactions[r].next_execution_date,
                                           job.as_of_date)
    /\ Len(job.report.errors) = 1
    /\ job.report.errors[1].recurring_id = last.recurring_id

\* the committed table transactions holds a row materialized from occurrence d
materialized_once(d) ==
    \E i \in DOMAIN transactions : transactions[i].occurrence = d

\* both processes have left execute_pending_for_all_users
AllRunsOver == \A p \in Runs : runs[p].pc \in {"returned", "raised"}

\* C20: two global sweep runs with the same as_of that overlap on one schedule
\* leave, once both are over and at least one of them returned without an error,
\* a transaction committed for every occurrence that was due when a run
\* discovered the schedule (possibly more than one transaction for an occurrence)
C20_AtLeastOnce ==
    (AllRunsOver /\ \E p \in Runs : runs[p].pc = "returned" /\ runs[p].exception = "")
        => \A p \in Runs : \A d \in runs[p].due : materialized_once(d)

\* both runs swept the schedule and returned, two occurrences were due at
\* discovery and one of them is committed twice
C20_Witness ==
    /\ \A p \in Runs : runs[p].pc = "returned" /\ runs[p].executions >= 1
    /\ \E p \in Runs : Cardinality(runs[p].due) >= 2
    /\ \E i, j \in DOMAIN transactions :
          i # j /\ transactions[i].occurrence = transactions[j].occurrence

\* C21: the sweep of one schedule terminates: an iteration that does not end the
\* loop strictly increases the cursor of the loop's object and persists it, the
\* run ends by returning or raising, and a sweep that returned left the schedule
\* inactive or its cursor after as_of
C21_SweepTerminates ==
    /\ [][ (runs[1].pc = "update" /\ runs'[1].pc = "loop") =>
              LET id == runs[1].recurring.id
              IN /\ runs'[1].recurring.next_execution_date
                       > runs[1].recurring.next_execution_date
                 /\ runs'[1].session.rows[id].next_execution_date
                       > session_rows(1)[id].next_execution_date
                 /\ runs'[1].session.rows[id] = runs'[1].recurring ]_vars
    /\ <>(runs[1].pc \in {"returned", "raised"})
    /\ [](runs[1].pc = "returned" =>
              \A i \in DOMAIN recurring_transactions :
                  \/ ~recurring_transactions[i].is_active
                  \/ recurring_transactions[i].next_execution_date > runs[1].as_of_date)

\* the sweep of a weekly schedule returned after five iterations
C21_Witness ==
    /\ runs[1].pc = "returned"
    /\ runs[1].executions = 5
    /\ runs[1].recurring.frequency = "weekly"
    /\ runs[1].recurring.is_active
    /\ Len(transactions) = 5

\* item a of a discovery result comes strictly before item b in the order
\* (tenant id, next_due, schedule id), the cursors read from table rows
strictly_before(rows, a, b) ==
    \/ a.workspace_id < b.workspace_id
    \/ /\ a.workspace_id = b.workspace_id
       /\ rows[a.id].next_execution_date < rows[b.id].next_execution_date
    \/ /\ a.workspace_id = b.workspace_id
       /\ rows[a.id].next_execution_date = rows[b.id].next_execution_date
       /\ a.id < b.id

\* C22: a global sweep run discovers exactly the schedules that are not deleted,
\* active and have next_due <= as_of, of every tenant, in strictly ascending order
\* of (tenant id, next_due, schedule id); it sweeps the discovered schedules one
\* by one in that order, each once, and a step of the run changes no row and no
\* transaction of a schedule other than the one it sweeps
C22_SweepsExactlyPending ==
    [][ /\ (job.pc = "idle" /\ job'.pc = "sweeping") =>
              LET items == job'.pending_items
              IN /\ {items[i].id : i \in DOMAIN items} =
                       {r \in DOMAIN recurring_transactions :
                           /\ recurring_transactions[r].deleted_at = None
                           /\ recurring_transactions[r].is_active
                           /\ recurring_transactions[r].next_execution_date
                                 <= job'.as_of_date}
                 /\ \A i \in DOMAIN items :
                       items[i].workspace_id
                           = recurring_transactions[items[i].id].workspace_id
                 /\ \A i, j \in DOMAIN items :
                       i < j => strictly_before(recurring_transactions, items[i], items[j])
                 /\ job'.index = 1
                 /\ recurring_transactions' = recurring_transactions
                 /\ transactions' = transactions
        /\ job.pc = "sweeping" =>
              /\ job'.pc \in {"sweeping", "returned"} => job'.pending_items = job.pending_items
              /\ job'.index \in {job.index, job.index + 1}
              /\ (recurring_transactions' # recurring_transactions
                    \/ transactions' # transactions) => ItemStep
        /\ ItemStep =>
              /\ last'.recurring_id = Item.id
              /\ \A r \in DOMAIN recurring_transactions : r # Item.id =>
                    /\ recurring_transactions'[r] = recurring_transactions[r]
                    /\ of_recurring(transactions', r) = of_recurring(transactions, r)
        /\ (job.pc = "sweeping" /\ job'.pc = "returned") =>
              job.index = Len(job.pending_items) + 1
      ]_vars

\* discovery over three schedules of which the first is deleted: the run sweeps
\* the schedule of workspace 1 (id 3) before the one of workspace 2 (id 2)
C22_Witness ==
    /\ job.pc = "returned"
    /\ Len(recurring_transactions) = 3
    /\ recurring_transactions[1].deleted_at # None
    /\ Len(job.pending_items) = 2
    /\ job.pending_items[1].id = 3 /\ job.pending_items[1].workspace_id = 1
    /\ job.pending_items[2].id = 2 /\ job.pending_items[2].workspace_id = 2
    /\ of_recurring(transactions, 1) = <<>>
    /\ of_recurring(transactions, 2) # <<>>
    /\ of_recurring(transactions, 3) # <<>>

\* the transactions a step appended to table transactions
appended == SubSeq(transactions', Len(transactions) + 1, Len(transactions'))

\* C23: the sweep creates no transaction for an occurrence after the schedule's
\* end_date; it materializes the occurrence that falls on end_date; and the sweep
\* of an active schedule whose cursor is already after end_date sets the schedule
\* inactive, changes nothing else of it, creates nothing and returns 0
C23_EndDateInclusive ==
    [][ ItemStep =>
          LET r == recurring_transactions[Item.id]
              swept == /\ last'.exception = ""
                       /\ r.deleted_at = None /\ r.is_active
                       /\ r.next_execution_date <= job.as_of_date
          IN /\ \A i \in DOMAIN appended :
                    /\ appended[i].recurring_transaction_id = Item.id
                    /\ r.end_date # None => appended[i].occurrence <= r.end_date
             /\ (swept /\ r.end_date # None /\ r.next_execution_date = r.end_date) =>
                    \E i \in DOMAIN appended : appended[i].occurrence = r.end_date
             /\ (swept /\ r.end_date # None /\ r.next_execution_date > r.end_date) =>
                    /\ recurring_transactions'[Item.id] = [r EXCEPT !.is_active = FALSE]
                    /\ transactions' = transactions
                    /\ last'.executions = 0
      ]_vars

\* the sweep found an active schedule with its cursor after end_date and left it
\* inactive, with no transaction created
C23_Witness ==
    /\ last.op = "backfill" /\ last.exception = "" /\ last.executions = 0
    /\ last.before.is_active
    /\ last.before.end_date # None
    /\ last.before.next_execution_date > last.before.end_date
    /\ last.before.next_execution_date <= job.as_of_date
    /\ job.pc = "sweeping"
    /\ ~recurring_transactions[last.recurring_id].is_active
    /\ of_recurring(transactions, last.recurring_id) = <<>>

\* C24: when the sweep creates a transaction the schedule it works from is the
\* schedule as committed (active, not deleted, same cursor), and the cursor the
\* sweep writes was computed from the cursor the row holds when it is written
C24_SweepRereads ==
    [][ LET id == runs[1].recurring.id
        IN /\ (runs[1].pc = "loop" /\ runs'[1].pc = "update") =>
                 /\ session_rows(1)[id].deleted_at = None
                 /\ session_rows(1)[id].is_active
                 /\ session_rows(1)[id].next_execution_date
                       = runs[1].recurring.next_execution_date
           /\ (runs[1].pc = "update" /\ runs'[1].pc = "loop") =>
                 session_rows(1)[id].next_execution_date
                     = runs[1].recurring.next_execution_date
      ]_vars

\* a commit appended transactions to the ledger
commits_transactions(p) ==
    /\ runs[p].pc \in {"commit", "raising"} /\ runs'[p].pc \in {"returned", "raised"}
    /\ transactions' # transactions

\* C25: a manual execute and a sweep that interleave on one schedule never commit a
\* transaction without committing with it an update of the schedule's cursor and
\* last-executed stamp (and both may commit a transaction for the same occurrence)
C25_TransactionWithCursorUpdate ==
    [][ /\ transactions' # transactions => \E p \in Runs : commits_transactions(p)
        /\ \A p \in Runs : commits_transactions(p) =>
              LET id == runs[p].recurring.id
                  mine == runs[p].session.inserted
              IN /\ runs[p].session.dirty
                 /\ transactions' = transactions \o mine
                 /\ recurring_transactions' = runs[p].session.rows
                 /\ recurring_transactions'[id].last_executed_at = today
                 /\ recurring_transactions'[id].next_execution_date =
                       next_due_after(recurring_transactions[id],
                                      mine[Len(mine)].occurrence)
      ]_vars

\* the request and the sweep read the same cursor before either committed; the
\* ledger holds one transaction of each for that occurrence
C25_Witness ==
    /\ \A p \in Runs : runs[p].pc = "returned" /\ runs[p].executions >= 1
    /\ Len(transactions) >= 2
    /\ \E i, j \in DOMAIN transactions :
          /\ i # j
          /\ transactions[i].occurrence = transactions[j].occurrence
          /\ transactions[i].occurrence = today

\* C26: manual execute on an active schedule whose occurrence date
\* max(next_due, today) is after end_date fails with ExpiredSchedule and creates
\* no transaction
C26_ExecuteNeverPastEnd ==
    [][ (/\ ExecuteCalled
         /\ recurring_transactions[last'.recurring_id].is_active
         /\ recurring_transactions[last'.recurring_id].end_date # None
         /\ Max(recurring_transactions[last'.recurring_id].next_execution_date, today)
               > recurring_transactions[last'.recurring_id].end_date)
        => /\ last'.exception = "RecurringTransactionExpiredException"
           /\ transactions' = transactions
      ]_vars

\* process p leaves its unit of work in this step (commit or rollback)
closes_unit(p) ==
    runs[p].pc \in {"commit", "raising"} /\ runs'[p].pc \in {"returned", "raised"}

\* the schedule's cursor or last-executed stamp differs between the committed
\* tables of the two states
cursor_committed(id) ==
    \/ recurring_transactions'[id].next_execution_date
          # recurring_transactions[id].next_execution_date
    \/ recurring_transactions'[id].last_executed_at
          # recurring_transactions[id].last_executed_at

\* C27: for the sweep and for manual execute, the committed tables change only
\* when a unit of work that did not raise commits; a commit that changes the
\* cursor or last-executed stamp of a schedule adds a transaction of it, and a
\* commit that adds transactions of a schedule leaves its cursor at the next date
\* after the last occurrence it materialized, its stamp at today and the schedule
\* inactive when that cursor is after end_date; a unit of work that raised after
\* creating a transaction leaves the committed tables as they were
C27_ExecutionAtomic ==
    [][ /\ (transactions' # transactions \/ recurring_transactions' # recurring_transactions)
            => \E p \in Runs : closes_unit(p) /\ runs[p].exception = ""
        /\ \A p \in Runs : (closes_unit(p) /\ runs[p].exception # "")
            => /\ transactions' = transactions
               /\ recurring_transactions' = recurring_transactions
        /\ \A id \in DOMAIN recurring_transactions :
             LET new == of_recurring(appended, id)
                 r == recurring_transactions'[id]
             IN /\ cursor_committed(id) => new # <<>>
                /\ new # <<>> =>
                     /\ r.next_execution_date = next_due_after(r, new[Len(new)].occurrence)
                     /\ r.last_executed_at = today
                     /\ expires(r.end_date, r.next_execution_date) => ~r.is_active
      ]_vars

\* a sweep that had created a transaction and updated the schedule in its unit of
\* work raised on a later statement and was rolled back: nothing is committed
C27_Witness ==
    /\ runs[1].pc = "raised"
    /\ runs[1].exception = "SQLAlchemyError"
    /\ runs[1].executions >= 1
    /\ transactions = <<>>
    /\ recurring_transactions[1].last_executed_at = None

\* C28: no operation turns an inactive schedule whose end_date is before today
\* into an active one
C28_NoReactivationPastEnd ==
    [][ \A id \in DOMAIN recurring_transactions :
          LET r == recurring_transactions[id]
          IN (/\ ~r.is_active
              /\ r.deleted_at = None
              /\ r.end_date # None
              /\ r.end_date < today)
             => ~recurring_transactions'[id].is_active
      ]_vars

\* C29: with one invoker and every unit of work running alone, each schedule a
\* global sweep run sweeps adds to successful_executions exactly the number of
\* transactions its unit of work committed, nothing else done while the run lasts
\* changes the ledger, and the run starts its report at 0; a sweep that raised
\* adds nothing to the total and commits nothing; a sweep that finds its schedule
\* deactivated since discovery adds 0, commits nothing and is not counted as failed
C29_ReportCountsCommitted ==
    [][ /\ ItemStep =>
             /\ job'.report.successful_executions - job.report.successful_executions
                   = Len(transactions') - Len(transactions)
             /\ last'.exception # "" =>
                   /\ transactions' = transactions
                   /\ job'.report.successful_executions = job.report.successful_executions
             /\ (/\ row_visible(recurring_transactions, Item.id)
                 /\ ~recurring_transactions[Item.id].is_active
                 /\ last'.exception = "") =>
                   /\ transactions' = transactions
                   /\ job'.report.successful_executions = job.report.successful_executions
                   /\ job'.report.failed_executions = job.report.failed_executions
                   /\ job'.report.errors = job.report.errors
        /\ ~ItemStep => transactions' = transactions
        /\ (job.pc = "idle" /\ job'.pc = "sweeping") =>
              job'.report.successful_executions = 0
      ]_vars

\* a run has swept a schedule that was deactivated after the run discovered it:
\* the sweep returned 0 without an error, and the run had counted the
\* transactions of an earlier schedule
C29_Witness ==
    /\ job.pc = "sweeping"
    /\ last.op = "backfill"
    /\ last.exception = ""
    /\ last.executions = 0
    /\ ~last.before.is_active
    /\ job.report.failed_executions = 0
    /\ job.report.successful_executions = Len(transactions)
    /\ job.report.successful_executions >= 1

---------------------------------------------------------------------------
(* The frequency calculator on its own: SpecCalc draws one call's arguments,  *)
(* applies either entry point to them and then advances the cursor from the   *)
(* result as the engine does after each occurrence.                           *)

\* first anchor date of the calculator runs: 2024-01-01
CalcFirstDate == Ymd(2024, 1, 1)

\* number of anchor dates after the first: through 2025-03-31, so that the leap
\* February of 2024 and the common February of 2025 are both crossed
CalcDays == 455

CalcConfigs ==
    {[frequency |-> "daily", day_of_week |-> None, day_of_month |-> None]}
    \cup {[frequency |-> "weekly", day_of_week |-> dow, day_of_month |-> None] :
             dow \in {None} \cup (0 .. 6)}
    \cup {[frequency |-> "monthly", day_of_week |-> None, day_of_month |-> dom] :
             dom \in {None, 1, 15, 28, 29, 30, 31}}

\* date.today() relative to the anchor date
CalcTodayOffsets == {0 - 1, 0, 1}

\* cursor advances chained after the first call
MaxCalcSteps == 2

CalcFirstDue ==
    /\ calc.fn = "" /\ calc.date # None
    /\ calc' = [calc EXCEPT
                  !.fn = "_calculate_next_execution",
                  !.result = _calculate_next_execution(
                      calc.frequency, calc.day_of_week, calc.day_of_month,
                      calc.date, calc.now)]
    /\ UNCHANGED <<today, recurring_transactions, transactions, categories, job, last, runs>>

CalcNextAfter ==
    /\ calc.fn = "" /\ calc.date # None
    /\ calc' = [calc EXCEPT
                  !.fn = "_calculate_next_execution_after",
                  !.result = _calculate_next_execution_after(
                      calc.date, calc.frequency, calc.day_of_week, calc.day_of_month),
                  !.calls = 1]
    /\ UNCHANGED <<today, recurring_transactions, transactions, categories, job, last, runs>>

\* the occurrence dated calc.result was executed: the cursor advances from it
CalcAdvance ==
    /\ calc.fn # "" /\ IsDate(calc.result)
    /\ calc.calls < 1 + MaxCalcSteps
    /\ calc' = [calc EXCEPT
                  !.fn = "_calculate_next_execution_after",
                  !.date = calc.result,
                  !.result = _calculate_next_execution_after(
                      calc.result, calc.frequency, calc.day_of_week, calc.day_of_month),
                  !.calls = IF calc.fn = "_calculate_next_execution" THEN 1 ELSE @ + 1]
    /\ UNCHANGED <<today, recurring_transactions, transactions, categories, job, last, runs>>

InitCalc ==
    /\ today = Today0
    /\ recurring_transactions = <<>>
    /\ transactions = <<>>
    /\ categories = category_rows
    /\ job = IdleJob
    /\ last = NoCall
    /\ runs = NoRuns
    /\ \E c \in CalcConfigs, d \in CalcFirstDate .. CalcFirstDate + CalcDays,
          k \in CalcTodayOffsets :
          calc = [fn |-> "", frequency |-> c.frequency, day_of_week |-> c.day_of_week,
                  day_of_month |-> c.day_of_month, date |-> d, now |-> d + k,
                  result |-> None, origin |-> d, calls |-> 0]

NextCalc == CalcFirstDue \/ CalcNextAfter \/ CalcAdvance

SpecCalc == InitCalc /\ [][NextCalc]_vars

---------------------------------------------------------------------------
(* Claims about the frequency calculator (checked under SpecCalc) *)

\* the recurrence d has to satisfy: any day, the configured weekday, or the
\* configured day of the month clamped to 28
satisfies_recurrence(c, d) ==
    CASE c.frequency = "daily" -> TRUE
      [] c.frequency = "weekly" -> weekday(d) = c.day_of_week
      [] c.frequency = "monthly" -> DayOf(d) = Min(c.day_of_month, 28)

valid_config(c) ==
    /\ c.frequency = "weekly" => c.day_of_week # None
    /\ c.frequency = "monthly" => c.day_of_month # None

\* C8: first_due returns the earliest date >= max(start_date, today) that satisfies
\* the recurrence, for every recurrence class; a weekly schedule whose anchor
\* already falls on the configured weekday is due on the anchor itself
C8_FirstDueIsEarliest ==
    (calc.fn = "_calculate_next_execution" /\ valid_config(calc)) =>
        LET anchor == Max(calc.date, calc.now)
        IN /\ IsDate(calc.result)
           /\ calc.result >= anchor
           /\ satisfies_recurrence(calc, calc.result)
           /\ \A d \in anchor .. calc.result - 1 : ~satisfies_recurrence(calc, d)

\* the 31st start dates C9 speaks of: monthly, day_of_month 31, start not before today
C9_Case ==
    /\ calc.fn = "_calculate_next_execution"
    /\ calc.frequency = "monthly" /\ calc.day_of_month = 31
    /\ DayOf(calc.date) = 31 /\ calc.date >= calc.now

\* C9 as stated: such a schedule is first due on the 28th of the month of its
\* start date (start 2024-01-31 gives 2024-01-28)
C9_SameMonth28 ==
    C9_Case => calc.result = Ymd(YearOf(calc.date), MonthOf(calc.date), 28)

\* C9 amended: such a schedule is first due on the 28th of the month after the
\* month of its start date (start 2024-01-31 gives 2024-02-28); the computation
\* raises no error and the date is not before the start date
C9_NextMonth28 ==
    C9_Case =>
        /\ IsDate(calc.result)
        /\ calc.result = replace_day(add_one_month(calc.date), 28)
        /\ MonthOf(calc.result) = (MonthOf(calc.date) % 12) + 1
        /\ DayOf(calc.result) = 28
        /\ calc.result > calc.date

C9_Witness ==
    /\ C9_Case
    /\ calc.date = Ymd(2024, 1, 31)
    /\ calc.result = Ymd(2024, 2, 28)

\* C10: for a monthly schedule with day_of_month in 29..31 every date computed by
\* first_due and by next_due_after is a date (no invalid-date error) whose day of
\* the month is 28, whatever the anchor date and the month, February included
C10_ClampTo28 ==
    (calc.fn # "" /\ calc.frequency = "monthly" /\ calc.day_of_month \in 29 .. 31) =>
        /\ IsDate(calc.result)
        /\ DayOf(calc.result) = 28

\* next_due_after from 2025-01-31 lands in the common February of 2025
C10_Witness ==
    /\ calc.frequency = "monthly" /\ calc.day_of_month = 30
    /\ calc.fn = "_calculate_next_execution_after"
    /\ calc.date = Ymd(2025, 1, 31)
    /\ calc.result = Ymd(2025, 2, 28)

\* C11: for a weekly schedule with day_of_week in 0..6 and any date d,
\* next_due_after(d) falls on the configured weekday, 1 to 7 days after d and never
\* on d; applied again to its own result it returns the date exactly 7 days later
C11_WeeklyStep ==
    (/\ calc.fn = "_calculate_next_execution_after"
     /\ calc.frequency = "weekly" /\ calc.day_of_week \in 0 .. 6) =>
        /\ IsDate(calc.result)
        /\ weekday(calc.result) = calc.day_of_week
        /\ calc.result - calc.date \in 1 .. 7
        /\ calc.calls >= 2 => calc.result - calc.date = 7

\* a Monday schedule advanced three times from Monday 2024-01-01: the first result
\* is a full week later, not the date itself
C11_Witness ==
    /\ calc.fn = "_calculate_next_execution_after"
    /\ calc.frequency = "weekly" /\ calc.day_of_week = 0
    /\ calc.origin = Ymd(2024, 1, 1)
    /\ calc.calls = 3
    /\ calc.date = Ymd(2024, 1, 15)
    /\ calc.result = Ymd(2024, 1, 22)

\* C12: for every valid configuration and every date d, next_due_after(d) > d, and
\* no date derived from the new cursor by next_due_after is <= the executed date
C12_StrictlyForward ==
    (calc.fn = "_calculate_next_execution_after" /\ valid_config(calc)) =>
        /\ IsDate(calc.result)
        /\ calc.result > calc.date
        /\ calc.date >= calc.origin
        /\ calc.result > calc.origin

\* a monthly schedule executed on its target day 2024-01-28 moves a month on, and
\* the dates derived from the new cursor keep moving forward
C12_Witness ==
    /\ calc.fn = "_calculate_next_execution_after"
    /\ calc.frequency = "monthly" /\ calc.day_of_month = 28
    /\ calc.origin = Ymd(2024, 1, 28)
    /\ calc.calls = 3
    /\ calc.date = Ymd(2024, 3, 28)
    /\ calc.result = Ymd(2024, 4, 28)

====
